---- MODULE Spec2Model ----
(***************************************************************************)
(* Model of pybikefit.py: the Bicycle / Rider objects, the coordinate      *)
(* derivations of Bicycle, print_specs and draw, and the JSON loaders      *)
(* get_rider / build_bike with the __main__ script that drives them.       *)
(*                                                                         *)
(* Numbers.  Python floats are modelled as decimal fixed-point integers    *)
(* with one fractional digit: the length 1072.6 is 10726, the angle 71.5   *)
(* is 715.  Addition and subtraction are exact; products, quotients and    *)
(* square roots round to the nearest unit, ties away from zero, which      *)
(* keeps the sign symmetry of IEEE round-to-nearest.  Sines and cosines    *)
(* are read from a table scaled by 10000.  Coordinates, which the quotient *)
(* of _head_tube_coords can take beyond that range, are records (see       *)
(* "Doubles beyond the fixed-point range").                                *)
(***************************************************************************)
EXTENDS Integers, Sequences, FiniteSets, TLC

VARIABLES args, bike, twin, ret, pc, files, riderFile, rider, bikes, idx, ax

vars == <<args, bike, twin, ret, pc, files, riderFile, rider, bikes, idx, ax>>

\* Python's None.
None == [none |-> TRUE]

\* The "raised" mark of a call that returned normally.
NoExc == "none"

----------------------------------------------------------------------------
(* Fixed-point arithmetic                                                  *)

Abs(v) == IF v < 0 THEN -v ELSE v

Sign(v) == IF v < 0 THEN -1 ELSE IF v > 0 THEN 1 ELSE 0

\* n / d rounded to the nearest integer, ties away from zero (d > 0).
RoundDiv(n, d) == Sign(n) * ((2 * Abs(n) + d) \div (2 * d))

RECURSIVE SqrtSearch(_, _, _)
\* Largest r in lo..hi with r * r <= n.
SqrtSearch(n, lo, hi) ==
  IF lo >= hi THEN lo
  ELSE LET mid == (lo + hi + 1) \div 2
       IN IF mid * mid <= n THEN SqrtSearch(n, mid, hi)
                            ELSE SqrtSearch(n, lo, mid - 1)

\* math.sqrt on a value n >= 0 carrying two fractional digits; the result
\* carries one and is rounded to nearest.
Sqrt(n) ==
  LET r == SqrtSearch(n, 0, IF n < 46340 THEN n ELSE 46340)
  IN IF n - r * r > r THEN r + 1 ELSE r

\* math.pow(v, 2): the result carries two fractional digits.
Pow2(v) == v * v

\* First-quadrant sine table, keys in tenths of a degree, values * 10000.
SinTab(q) ==
  CASE q = 0   -> 0
    [] q = 175 -> 3007
    [] q = 185 -> 3173
    [] q = 300 -> 5000
    [] q = 450 -> 7071
    [] q = 600 -> 8660
    [] q = 715 -> 9483
    [] q = 725 -> 9537
    [] q = 900 -> 10000

\* math.sin(math.radians(a)), a in tenths of a degree.
SinDeg(a) ==
  LET m == a % 3600
  IN IF m <= 900 THEN SinTab(m)
     ELSE IF m <= 1800 THEN SinTab(1800 - m)
     ELSE IF m <= 2700 THEN -SinTab(m - 1800)
     ELSE -SinTab(3600 - m)

\* math.cos(math.radians(a)), a in tenths of a degree.
CosDeg(a) == SinDeg(900 - a)

\* length * t for a table value t.
MulTrig(length, t) == RoundDiv(length * t, 10000)

\* v / 2
Half(v) == RoundDiv(v, 2)

----------------------------------------------------------------------------
(* Doubles beyond the fixed-point range                                    *)
(*                                                                         *)
(* math.cos returns no 0.0 at a right angle: cos(radians(90.0)) is         *)
(* 6.123233995736766e-17 and cos(radians(270.0)) is                        *)
(* -1.8369701987210297e-16.  Dividing by them raises no ZeroDivisionError  *)
(* and gives a double of magnitude 1e17 and more, whose neighbours lie     *)
(* many millimetres apart, so that a later addition moves it by whole      *)
(* multiples of that spacing or not at all.  Every coordinate is therefore *)
(* a record [num, den, v], standing for the double                         *)
(*     fl((num / 10) / Den) + v / 10                                       *)
(* with Den = 1 (den = "1", num = 0: an ordinary value of v tenths),       *)
(* Den = cos(radians(90.0)) (den = "cos90") or Den = cos(radians(270.0))   *)
(* (den = "cos270"); in the last two cases v is a multiple of the spacing. *)

\* The double of v tenths.
F(v) == [num |-> 0, den |-> "1", v |-> v]

IsBig(n) == n.den # "1"

\* Sign of the quotient num / Den.
BaseSign(n) == Sign(n.num) * (IF n.den = "cos270" THEN -1 ELSE 1)

\* 10 * 2^53 * |Den| * 10000, rounded down: a quotient a / |Den| (a in
\* tenths) has spacing s exactly when s / 2 * UlpScale < a * 10000 <=
\* s * UlpScale.
UlpScale(den) ==
  CASE den = "cos90" -> 55153
    [] den = "cos270" -> 165459

RECURSIVE SpacingFrom(_, _, _)
\* Smallest s, s * 2, s * 4, ... with a * 10000 <= s * k.
SpacingFrom(a, k, s) ==
  IF a * 10000 <= s * k THEN s ELSE SpacingFrom(a, k, 2 * s)

\* Distance, in tenths, between the double n and its neighbours (for a
\* distance of 1.0 and more).
Spacing(n) ==
  LET a == Abs(n.num)
      k == UlpScale(n.den)
  IN CASE 2 * a * 10000 > k -> 10 * SpacingFrom(a, k, 1)

\* The multiple of s nearest to d (d is never half way between two).
RoundTo(d, s) ==
  CASE 2 * (Abs(d) % s) # s -> Sign(d) * s * ((2 * Abs(d) + s) \div (2 * s))

\* -n
Neg(n) == [n EXCEPT !.num = -@, !.v = -@]

\* n + m: the sum rounded to the doubles around the larger operand.
Add(n, m) ==
  CASE ~IsBig(n) /\ ~IsBig(m) -> F(n.v + m.v)
    [] IsBig(n) /\ ~IsBig(m) -> [n EXCEPT !.v = @ + RoundTo(m.v, Spacing(n))]
    [] ~IsBig(n) /\ IsBig(m) -> [m EXCEPT !.v = @ + RoundTo(n.v, Spacing(m))]
    [] IsBig(n) /\ IsBig(m) /\ n.den = m.den /\ n.num = -m.num -> F(n.v + m.v)

\* n - m
Sub(n, m) == Add(n, Neg(m))

\* a / math.cos(math.radians(ang)), a in tenths and ang in tenths of a
\* degree.  At a right angle the divisor is the tiny double math.cos
\* returns there (cos is even: -90 gives the double of 90, -270 that of
\* 270); 0.0 divided by it is 0.0.
FloatDiv(a, ang) ==
  LET t == CosDeg(ang)
  IN CASE t # 0 -> F(Sign(t) * RoundDiv(a * 10000, Abs(t)))
       [] t = 0 /\ a = 0 -> F(0)
       [] t = 0 /\ a # 0 /\ Abs(ang) = 900 ->
            [num |-> a, den |-> "cos90", v |-> 0]
       [] t = 0 /\ a # 0 /\ Abs(ang) = 2700 ->
            [num |-> a, den |-> "cos270", v |-> 0]

----------------------------------------------------------------------------
(* Module-level functions                                                  *)

\* Variant of get_vector_coords that returns each pair end point first.
get_vector_coords_Swapped(x1, y1, length, angle_deg) ==
  LET y2 == Add(y1, F(MulTrig(length, SinDeg(1800 - angle_deg))))
      x2 == Add(x1, F(MulTrig(length, CosDeg(1800 - angle_deg))))
  IN [x |-> <<x2, x1>>, y |-> <<y2, y1>>]

\* get_vector_coords: [start_x, end_x], [start_y, end_y]
get_vector_coords(x1, y1, length, angle_deg) ==
  LET y2 == Add(y1, F(MulTrig(length, SinDeg(1800 - angle_deg))))
      x2 == Add(x1, F(MulTrig(length, CosDeg(1800 - angle_deg))))
  IN [x |-> <<x1, x2>>, y |-> <<y1, y2>>]

\* get_distance_between_coords.  With a difference dx beyond the
\* fixed-point range, pow(dx, 2) absorbs pow(dy, 2) and the square root of
\* the rounded square is |dx| again.
get_distance_between_coords(x1, y1, x2, y2) ==
  LET dx == Sub(x2, x1)
      dy == Sub(y2, y1)
  IN CASE ~IsBig(dx) /\ ~IsBig(dy) -> F(Sqrt(Pow2(dx.v) + Pow2(dy.v)))
       [] IsBig(dx) /\ ~IsBig(dy) -> IF BaseSign(dx) < 0 THEN Neg(dx) ELSE dx

----------------------------------------------------------------------------
(* Results of calls: a call either raises or returns a value.              *)

Raise(e) == [raised |-> e]

Ok(v) == [raised |-> NoExc, val |-> v]

\* math.sqrt: a negative argument raises ValueError ("math domain error").
math_sqrt(n) == IF n < 0 THEN Raise("ValueError") ELSE Ok(Sqrt(n))

----------------------------------------------------------------------------
(* class Rider                                                             *)

\* Rider.__init__
Rider(saddle_height, saddle_length, saddle_set_back) ==
  [saddle_height |-> saddle_height,
   saddle_length |-> saddle_length,
   saddle_set_back |-> saddle_set_back]

\* Rider() with the defaults of its signature.
DefaultRider == Rider(8100, 2800, 220)

----------------------------------------------------------------------------
(* class Bicycle and its inner classes                                     *)

STEM_HEIGHT == 500

HANDLEBAR_DIAMETER == 316

\* Bicycle.BottomBracket.__init__
BottomBracket(diameter, drop, wheel_diameter) ==
  [coord |-> <<F(0), F(Half(wheel_diameter) - drop)>>,
   diameter |-> diameter,
   drop |-> drop]

\* Bicycle.Wheel.__init__
Wheel(axel_coord, diameter, color_str) ==
  [coord |-> axel_coord, diameter |-> diameter, color_str |-> color_str]

\* Bicycle.Saddle.__init__
Saddle(saddle_height, saddle_length, saddle_set_back, bb_coords, seat_tube_angle, color_str) ==
  [saddle_height |-> saddle_height,
   saddle_length |-> saddle_length,
   saddle_set_back |-> saddle_set_back,
   seat_tube_angle |-> seat_tube_angle,
   bb_coords |-> bb_coords,
   color_str |-> color_str]

\* Variant of _rear_hub_coords that adds the squares.
rear_hub_coords_SumOfSquares(self) ==
  LET s == math_sqrt(Pow2(self.chainstay_length) + Pow2(self.bb.drop))
  IN IF s.raised # NoExc THEN s
     ELSE Ok(<<F(-s.val), F(Half(self.wheel_diameter))>>)

\* Bicycle._rear_hub_coords: raises when the square root's argument is
\* negative, else returns (x, y).
rear_hub_coords(self) ==
  LET s == math_sqrt(Pow2(self.chainstay_length) - Pow2(self.bb.drop))
  IN IF s.raised # NoExc THEN s
     ELSE Ok(<<F(-s.val), F(Half(self.wheel_diameter))>>)

\* Variant of _front_hub_coords that measures the wheelbase from the
\* bottom bracket (x = 0) instead of the rear hub.
front_hub_coords_FromBB(self) ==
  LET r == rear_hub_coords(self)
  IN IF r.raised # NoExc THEN r
     ELSE Ok(<<F(self.wheelbase), r.val[2]>>)

\* Bicycle._front_hub_coords
front_hub_coords(self) ==
  LET r == rear_hub_coords(self)
  IN IF r.raised # NoExc THEN r
     ELSE Ok(<<Add(r.val[1], F(self.wheelbase)), r.val[2]>>)

\* Variant of the rider test that treats a rider without saddle height as
\* no rider.
Truthy_BySaddleHeight(r) == r # None /\ r.saddle_height # 0

\* The truth value Python gives the rider argument in "if rider:": None is
\* false; a Rider instance defines neither __bool__ nor __len__ and is true.
Truthy(r) == r # None

\* Bicycle.__init__: raises what _rear_hub_coords raises, else returns the
\* object.
Bicycle(a, r) ==
  LET s0 == [color_str |-> a.color_str,
             frame_size |-> a.size,
             name |-> a.name,
             chainstay_length |-> a.chainstay_length,
             fork_length |-> a.fork_length,
             fork_offset |-> a.fork_offset,
             head_tube_angle |-> a.head_tube_angle,
             head_tube_length |-> a.head_tube_length,
             seat_tube_angle |-> a.seat_tube_angle,
             seat_tube_length |-> a.seat_tube_length,
             wheelbase |-> a.wheelbase,
             wheel_diameter |-> a.wheel_diameter,
             bb |-> BottomBracket(a.bb_diameter, a.bb_drop, a.wheel_diameter)]
      rear == rear_hub_coords(s0)
      front == front_hub_coords(s0)
  IN IF rear.raised # NoExc THEN rear
     ELSE Ok(s0 @@
             [rear_wheel |-> Wheel(rear.val, s0.wheel_diameter, s0.color_str),
              front_wheel |-> Wheel(front.val, s0.wheel_diameter, s0.color_str),
              stem_angle |-> a.stem_angle,
              stem_length |-> a.stem_length,
              saddle |-> IF Truthy(r)
                         THEN Saddle(r.saddle_height, r.saddle_length,
                                     r.saddle_set_back, s0.bb.coord,
                                     s0.seat_tube_angle, s0.color_str)
                         ELSE None])

\* The derivations below are methods of a constructed Bicycle: its
\* construction already took the square root of _rear_hub_coords without
\* raising, and no method assigns a field, so the root is real here too.
RearHub(self) == rear_hub_coords(self).val

\* Bicycle._head_tube_coords
head_tube_coords(self) ==
  LET x_offset == FloatDiv(self.fork_offset, 900 - self.head_tube_angle)
      rear_hub == RearHub(self)
      head_tube_x_origin == Sub(Add(rear_hub[1], F(self.wheelbase)), x_offset)
      bottom == get_vector_coords(head_tube_x_origin, rear_hub[2],
                                  self.fork_length, self.head_tube_angle)
  IN get_vector_coords(bottom.x[2], bottom.y[2],
                       self.head_tube_length, self.head_tube_angle)

\* Bicycle._seat_tube_coords
seat_tube_coords(self) ==
  get_vector_coords(self.bb.coord[1], self.bb.coord[2],
                    self.seat_tube_length, self.seat_tube_angle)

\* Bicycle._seat_stay_coords
seat_stay_coords(self) ==
  LET seat == seat_tube_coords(self)
      rear_hub == RearHub(self)
  IN [x |-> <<seat.x[2], rear_hub[1]>>, y |-> <<seat.y[2], rear_hub[2]>>]

\* Bicycle._steer_tube_coords
steer_tube_coords(self) ==
  LET head == head_tube_coords(self)
  IN get_vector_coords(head.x[2], head.y[2], STEM_HEIGHT, self.head_tube_angle)

\* Bicycle._top_and_down_tube_coords
top_and_down_tube_coords(self) ==
  LET head_tube == head_tube_coords(self)
      seat_tube == seat_tube_coords(self)
  IN [x |-> <<head_tube.x, seat_tube.x>>, y |-> <<head_tube.y, seat_tube.y>>]

\* Bicycle.Saddle._seat_tube_coords
saddle_seat_tube_coords(saddle) ==
  get_vector_coords(saddle.bb_coords[1], saddle.bb_coords[2],
                    saddle.saddle_height, saddle.seat_tube_angle)

\* Variant of _top_and_down_tube_print_specs that pairs the head tube's
\* bottom point with the seat tube's top point.
top_and_down_tube_print_specs_MixedEnds(self) ==
  LET c == top_and_down_tube_coords(self)
      x == c.x
      y == c.y
  IN [top_tube |-> get_distance_between_coords(x[1][1], y[1][1], x[2][2], y[2][2]),
      down_tube |-> get_distance_between_coords(x[1][2], y[1][2], x[2][1], y[2][1])]

\* Bicycle._top_and_down_tube_print_specs: the two printed lengths.
top_and_down_tube_print_specs(self) ==
  LET c == top_and_down_tube_coords(self)
      x == c.x
      y == c.y
  IN [top_tube |-> get_distance_between_coords(x[1][2], y[1][2], x[2][2], y[2][2]),
      down_tube |-> get_distance_between_coords(x[1][1], y[1][1], x[2][1], y[2][1])]

\* Bicycle.print_specs: what is printed, in order.
print_specs(self) ==
  [name |-> self.name,
   size |-> self.frame_size,
   bb_diameter |-> self.bb.diameter,
   bb_drop |-> self.bb.drop,
   chainstay_length |-> self.chainstay_length,
   fork_length |-> self.fork_length,
   fork_offset |-> self.fork_offset,
   head_tube_angle |-> self.head_tube_angle,
   head_tube_length |-> self.head_tube_length,
   seat_tube_angle |-> self.seat_tube_angle,
   seat_tube_length |-> self.seat_tube_length,
   stem_length |-> self.stem_length,
   tubes |-> top_and_down_tube_print_specs(self)]

\* Bicycle.Wheel.draw: the hub circle and the wheel circle.
wheel_draw(wheel) ==
  [hub |-> [centre |-> wheel.coord, radius |-> 200],
   wheel |-> [centre |-> wheel.coord, radius |-> Half(wheel.diameter)]]

\* Bicycle.Saddle.draw: the seat post line and the saddle line.
saddle_draw(saddle) ==
  LET c == saddle_seat_tube_coords(saddle)
      x == c.x
      y == c.y
      seat_x == <<Sub(Sub(x[2], F(Half(saddle.saddle_length))),
                      F(saddle.saddle_set_back)),
                  Sub(Add(x[2], F(Half(saddle.saddle_length))),
                      F(saddle.saddle_set_back))>>
      seat_y == <<y[2], y[2]>>
  IN [seat_tube |-> c, seat |-> [x |-> seat_x, y |-> seat_y]]

\* Bicycle.BottomBracket.draw
bb_draw(bb) == [centre |-> bb.coord, radius |-> Half(bb.diameter)]

\* Bicycle._chainstay_draw
chainstay_draw(self) ==
  LET rear_hub == RearHub(self)
      bb == self.bb.coord
  IN [x |-> <<bb[1], rear_hub[1]>>, y |-> <<bb[2], rear_hub[2]>>]

\* Variant of _fork_draw with the sign of the head tube angle flipped.
fork_draw_FlippedAngle(self) ==
  LET head_tube == head_tube_coords(self)
  IN get_vector_coords(head_tube.x[1], head_tube.y[1],
                       self.fork_length, 1800 - self.head_tube_angle)

\* Bicycle._fork_draw: the plotted fork axis.
fork_draw(self) ==
  LET head_tube == head_tube_coords(self)
  IN get_vector_coords(head_tube.x[1], head_tube.y[1],
                       self.fork_length, -1800 + self.head_tube_angle)

\* Bicycle._stem_draw: steer tube, stem and handlebar mount.
stem_draw(self) ==
  LET steer == steer_tube_coords(self)
      stem == get_vector_coords(steer.x[2], steer.y[2],
                                self.stem_length + Half(HANDLEBAR_DIAMETER),
                                self.head_tube_angle - self.stem_angle + 900)
  IN [steer_tube |-> steer,
      stem |-> stem,
      handlebar |-> [centre |-> <<stem.x[2], stem.y[2]>>,
                     radius |-> Half(HANDLEBAR_DIAMETER)]]

\* Bicycle.draw: the artists added to the axes, in the method's order.
draw(self) ==
  [front_wheel |-> wheel_draw(self.front_wheel),
   rear_wheel |-> wheel_draw(self.rear_wheel),
   saddle |-> IF self.saddle # None THEN saddle_draw(self.saddle) ELSE None,
   bb |-> bb_draw(self.bb),
   chainstay |-> chainstay_draw(self),
   fork |-> fork_draw(self),
   head_tube |-> head_tube_coords(self),
   seat_stay |-> seat_stay_coords(self),
   seat_tube |-> seat_tube_coords(self),
   stem |-> stem_draw(self),
   top_and_down_tube |-> top_and_down_tube_coords(self)]

\* The axes "fig, ax = plt.subplots()" binds to the module global ax, with
\* the limits and the grid the script sets on them.
Axes == [xlim |-> <<-10000, 12000>>, ylim |-> <<-1000, 14000>>, grid |-> TRUE]

\* What a call of Bicycle.draw() raises while the module global ax holds
\* axes (None: the name is not bound).  Every draw method reads ax; unbound,
\* the first of them, Wheel.draw, raises NameError before anything is drawn.
DrawRaises(axes) == IF axes = None THEN "NameError" ELSE NoExc

\* Variant of draw() in which the saddle's set back is applied in place to
\* the coordinate list the Saddle shares with the BottomBracket.
AfterDraw_ShiftsSharedCoord(self) ==
  [self EXCEPT !.bb.coord = <<Sub(self.bb.coord[1], F(220)), self.bb.coord[2]>>]

\* The object after draw(): neither Bicycle.draw nor a draw method it calls
\* assigns a field or updates a coordinate list in place.
AfterDraw(self) == self

\* The object after print_specs(): no assignment either.
AfterPrintSpecs(self) == self

\* The coordinate derivations a caller can invoke on a Bicycle.
Derivations ==
  {"bb.get_coord", "_rear_hub_coords", "_front_hub_coords",
   "_head_tube_coords", "_seat_tube_coords", "_seat_stay_coords",
   "_steer_tube_coords", "_top_and_down_tube_coords",
   "saddle._seat_tube_coords"}

\* The value derivation d returns on object self.
DeriveVal(self, d) ==
  CASE d = "bb.get_coord" -> self.bb.coord
    [] d = "_rear_hub_coords" -> rear_hub_coords(self).val
    [] d = "_front_hub_coords" -> front_hub_coords(self).val
    [] d = "_head_tube_coords" -> head_tube_coords(self)
    [] d = "_seat_tube_coords" -> seat_tube_coords(self)
    [] d = "_seat_stay_coords" -> seat_stay_coords(self)
    [] d = "_steer_tube_coords" -> steer_tube_coords(self)
    [] d = "_top_and_down_tube_coords" -> top_and_down_tube_coords(self)
    [] d = "saddle._seat_tube_coords" -> saddle_seat_tube_coords(self.saddle)

\* The object after a derivation: the derivations only read fields.
AfterDerive(self, d) == self

----------------------------------------------------------------------------
(* Inputs                                                                  *)

\* Bicycle() with the defaults of its signature.
DefaultArgs ==
  [name |-> "Example", size |-> "Large", bb_drop |-> 750, bb_diameter |-> 348,
   chainstay_length |-> 4500, color_str |-> "r", fork_length |-> 4050,
   fork_offset |-> 500, head_tube_angle |-> 715, head_tube_length |-> 2050,
   seat_tube_angle |-> 725, seat_tube_length |-> 5600, stem_angle |-> 0,
   stem_length |-> 500, wheelbase |-> 10726, wheel_diameter |-> 7000]

\* <<chainstay_length, bb_drop>> pairs: the default; the degenerate right
\* triangle; a chainstay shorter than the drop; negative values on either
\* side, which the constructor accepts like any other number.
ChainstayDrop ==
  {<<4500, 750>>, <<750, 750>>, <<600, 750>>, <<-1000, 750>>,
   <<600, -750>>, <<-750, -750>>, <<1000, -750>>}

\* Head tube angles: the default; 0 and 360 degrees, where the divisor of
\* the fork offset is math.cos at 90 and at -270 degrees; 60 and 90 degrees.
HeadAngles == {715, 0, 3600, 600, 900}

ForkOffsets == {500, 0}

Wheelbases == {10726, 9800}

BikeArgs ==
  {[DefaultArgs EXCEPT !.name = "Loaded",
                       !.chainstay_length = c[1], !.bb_drop = c[2],
                       !.head_tube_angle = h, !.fork_offset = f,
                       !.wheelbase = w] :
     c \in ChainstayDrop, h \in HeadAngles, f \in ForkOffsets,
     w \in Wheelbases}

\* Rider arguments: no rider, the default rider, a rider of zeros.
Riders == {None, DefaultRider, Rider(0, 0, 0)}

----------------------------------------------------------------------------
(* Specification Spec: calls on Bicycle objects in any order.  bike and    *)
(* twin are two objects built from the same arguments args; ret is the     *)
(* outcome of the last call; ax is the module global the draw methods use, *)
(* unbound until the plot is set up.                                       *)

MainIdle ==
  /\ pc = "idle" /\ files = <<>> /\ riderFile = None
  /\ rider = None /\ bikes = <<>> /\ idx = 0

mainVars == <<pc, files, riderFile, rider, bikes, idx>>

Init ==
  /\ args = None /\ bike = None /\ twin = None /\ ax = None
  /\ ret = [op |-> "none", target |-> "none", raised |-> NoExc, val |-> None]
  /\ MainIdle

\* bike = Bicycle(**a, rider=r)
Construct ==
  /\ args = None
  /\ \E a \in BikeArgs, r \in Riders :
       LET b == Bicycle(a, r)
       IN /\ args' = [a |-> a, rider |-> r]
          /\ bike' = IF b.raised = NoExc THEN b.val ELSE None
          /\ ret' = [op |-> "Bicycle", target |-> "bike",
                     raised |-> b.raised, val |-> None]
  /\ UNCHANGED <<twin, mainVars, ax>>

\* twin = Bicycle(**a, rider=r) with the arguments bike was built from
ConstructTwin ==
  /\ bike # None /\ twin = None
  /\ twin' = Bicycle(args.a, args.rider).val
  /\ ret' = [op |-> "Bicycle", target |-> "twin", raised |-> NoExc, val |-> None]
  /\ UNCHANGED <<args, bike, mainVars, ax>>

Obj(t) == IF t = "bike" THEN bike ELSE twin

\* Leaves the objects as they are but for target t, which becomes o.
SetObj(t, o) ==
  /\ bike' = IF t = "bike" THEN o ELSE bike
  /\ twin' = IF t = "twin" THEN o ELSE twin

Derive ==
  \E t \in {"bike", "twin"}, d \in Derivations :
    /\ Obj(t) # None
    /\ d = "saddle._seat_tube_coords" => Obj(t).saddle # None
    /\ ret' = [op |-> d, target |-> t, raised |-> NoExc,
               val |-> DeriveVal(Obj(t), d)]
    /\ SetObj(t, AfterDerive(Obj(t), d))
    /\ UNCHANGED <<args, mainVars, ax>>

PrintSpecs ==
  \E t \in {"bike", "twin"} :
    /\ Obj(t) # None
    /\ ret' = [op |-> "print_specs", target |-> t, raised |-> NoExc,
               val |-> print_specs(Obj(t))]
    /\ SetObj(t, AfterPrintSpecs(Obj(t)))
    /\ UNCHANGED <<args, mainVars, ax>>

Draw ==
  \E t \in {"bike", "twin"} :
    /\ Obj(t) # None
    /\ ret' = [op |-> "draw", target |-> t, raised |-> DrawRaises(ax),
               val |-> IF DrawRaises(ax) = NoExc THEN draw(Obj(t)) ELSE None]
    /\ SetObj(t, IF DrawRaises(ax) = NoExc THEN AfterDraw(Obj(t)) ELSE Obj(t))
    /\ UNCHANGED <<args, mainVars, ax>>

\* fig, ax = plt.subplots() and the limits and grid set on ax: binds the
\* module global the draw methods read.
SetUpPlot ==
  /\ ax = None
  /\ ax' = Axes
  /\ UNCHANGED <<args, bike, twin, ret, mainVars>>

Next == Construct \/ ConstructTwin \/ Derive \/ PrintSpecs \/ Draw \/ SetUpPlot

Spec == Init /\ [][Next]_vars

----------------------------------------------------------------------------
(* Specification VecSpec: get_vector_coords on its own, over start points, *)
(* lengths and angles drawn at Init.                                       *)

VecPoints == {-1000, 0, 3705}

\* Start abscissas: the points above and one beyond the fixed-point range.
VecStarts == {F(p) : p \in VecPoints} \cup {FloatDiv(-500, 900)}

VecLengths == {0, 500, 4050, -500}

VecAngles == {0, 450, 715, 900, 1615, 1800, -1085, 2700}

VecInit ==
  /\ args \in [x1 : VecStarts, y1 : {F(p) : p \in VecPoints},
               length : VecLengths, angle_deg : VecAngles]
  /\ bike = None /\ twin = None /\ ax = None
  /\ ret = [op |-> "none", target |-> "none", raised |-> NoExc, val |-> None]
  /\ MainIdle

CallVector ==
  /\ ret.op = "none"
  /\ ret' = [op |-> "get_vector_coords", target |-> "none", raised |-> NoExc,
             val |-> get_vector_coords(args.x1, args.y1, args.length,
                                       args.angle_deg)]
  /\ UNCHANGED <<args, bike, twin, mainVars, ax>>

VecNext == CallVector

VecSpec == VecInit /\ [][VecNext]_vars

----------------------------------------------------------------------------
(* The loaders and the __main__ script.  A file named on the command line  *)
(* is described by what reading it does: "missing" (open or read fails     *)
(* with IOError), "badjson" (json.load fails), "nokey" (a required key is  *)
(* absent) or "ok" with the values it holds.                               *)

\* Largest number of -j options on the command line.
MaxFiles == 2

File(kind, data) == [kind |-> kind, data |-> data]

\* Values of loadable bicycle files: the default geometry under another
\* name, and one whose chainstay is shorter than its drop.
FileBikes ==
  {[DefaultArgs EXCEPT !.name = "Loaded"],
   [DefaultArgs EXCEPT !.name = "Short", !.chainstay_length = 600]}

BikeFiles ==
  {File("missing", None), File("badjson", None), File("nokey", None)}
    \cup {File("ok", a) : a \in FileBikes}

\* The -r option: absent (None) or a rider file.
RiderFiles ==
  {None, File("missing", None), File("badjson", None), File("nokey", None),
   File("ok", DefaultRider)}

\* get_rider: IOError is printed and raised again; json.load's error is not
\* caught; a missing key is printed and raised as KeyError.
get_rider(json_rider_file) ==
  CASE json_rider_file.kind = "missing" -> Raise("IOError")
    [] json_rider_file.kind = "badjson" -> Raise("JSONDecodeError")
    [] json_rider_file.kind = "nokey" -> Raise("KeyError")
    [] json_rider_file.kind = "ok" ->
         Ok(Rider(json_rider_file.data.saddle_height,
                  json_rider_file.data.saddle_length,
                  json_rider_file.data.saddle_set_back))

\* Variant of build_bike that raises IOError again, as get_rider does.
build_bike_Reraises(json_bike_file, r) ==
  CASE json_bike_file.kind = "missing" -> Raise("IOError")
    [] json_bike_file.kind = "badjson" -> Raise("JSONDecodeError")
    [] json_bike_file.kind = "nokey" -> Raise("KeyError")
    [] json_bike_file.kind = "ok" -> Bicycle(json_bike_file.data, r)

\* build_bike: IOError is printed and the example bike Bicycle() returned;
\* json.load's error is not caught; a missing key is printed and raised as
\* KeyError; otherwise the result of the constructor, which may raise.
build_bike(json_bike_file, r) ==
  CASE json_bike_file.kind = "missing" -> Bicycle(DefaultArgs, None)
    [] json_bike_file.kind = "badjson" -> Raise("JSONDecodeError")
    [] json_bike_file.kind = "nokey" -> Raise("KeyError")
    [] json_bike_file.kind = "ok" -> Bicycle(json_bike_file.data, r)

RECURSIVE SeqsUpTo(_, _)
\* The sequences over S of length at most n.
SeqsUpTo(S, n) ==
  IF n = 0 THEN {<<>>}
  ELSE LET shorter == SeqsUpTo(S, n - 1)
       IN shorter \cup {Append(q, e) : q \in shorter, e \in S}

\* Specification MainSpec: one run of the script over a command line.
MainInit ==
  /\ riderFile \in RiderFiles
  /\ files \in SeqsUpTo(BikeFiles, MaxFiles)
  /\ pc = "rider" /\ rider = None /\ bikes = <<>> /\ idx = 1
  /\ args = None /\ bike = None /\ twin = None /\ ax = None
  /\ ret = [op |-> "none", target |-> 0, raised |-> NoExc, val |-> None]

harnessVars == <<args, bike, twin>>

\* if args.rider: rider = get_rider(args.rider); rider.print_specs()
GetRider ==
  /\ pc = "rider"
  /\ IF riderFile = None
     THEN /\ pc' = "load"
          /\ UNCHANGED <<rider, ret>>
     ELSE LET r == get_rider(riderFile)
          IN /\ ret' = [op |-> "get_rider", target |-> 0,
                        raised |-> r.raised, val |-> None]
             /\ rider' = IF r.raised = NoExc THEN r.val ELSE rider
             /\ pc' = IF r.raised = NoExc THEN "load" ELSE "raised"
  /\ UNCHANGED <<files, riderFile, bikes, idx, harnessVars, ax>>

\* One round of "for b in args.json: bikes.append(build_bike(b, rider))";
\* after the last file the plot is set up, which binds ax.
BuildBike ==
  /\ pc = "load" /\ files # <<>> /\ idx <= Len(files)
  /\ LET b == build_bike(files[idx], rider)
     IN /\ ret' = [op |-> "build_bike", target |-> idx, raised |-> b.raised,
                   val |-> IF b.raised = NoExc THEN b.val ELSE None]
        /\ IF b.raised = NoExc
           THEN /\ bikes' = Append(bikes, b.val)
                /\ pc' = IF idx = Len(files) THEN "plot" ELSE "load"
                /\ idx' = IF idx = Len(files) THEN 1 ELSE idx + 1
                /\ ax' = IF idx = Len(files) THEN Axes ELSE ax
           ELSE /\ pc' = "raised"
                /\ UNCHANGED <<bikes, idx, ax>>
  /\ UNCHANGED <<files, riderFile, rider, harnessVars>>

\* else: bikes.append(Bicycle()), then the plot is set up, which binds ax.
MakeExample ==
  /\ pc = "load" /\ files = <<>>
  /\ bikes' = Append(bikes, Bicycle(DefaultArgs, None).val)
  /\ ret' = [op |-> "Bicycle", target |-> 1, raised |-> NoExc, val |-> None]
  /\ pc' = "plot" /\ idx' = 1 /\ ax' = Axes
  /\ UNCHANGED <<files, riderFile, rider, harnessVars>>

\* One round of "for bike in bikes": print_specs, draw and the legend label.
PlotBike ==
  /\ pc = "plot" /\ idx <= Len(bikes)
  /\ ret' = [op |-> "plot", target |-> idx, raised |-> DrawRaises(ax),
             val |-> IF DrawRaises(ax) = NoExc
                     THEN [printed |-> print_specs(bikes[idx]),
                           drawn |-> draw(AfterPrintSpecs(bikes[idx])),
                           label |-> <<bikes[idx].name, bikes[idx].frame_size>>]
                     ELSE None]
  /\ bikes' = [bikes EXCEPT
                 ![idx] = IF DrawRaises(ax) = NoExc
                          THEN AfterDraw(AfterPrintSpecs(bikes[idx]))
                          ELSE AfterPrintSpecs(bikes[idx])]
  /\ idx' = IF DrawRaises(ax) = NoExc THEN idx + 1 ELSE idx
  /\ pc' = IF DrawRaises(ax) = NoExc THEN pc ELSE "raised"
  /\ UNCHANGED <<files, riderFile, rider, harnessVars, ax>>

\* ax.legend(...); plt.show(block=True)
Show ==
  /\ pc = "plot" /\ idx > Len(bikes)
  /\ pc' = "done"
  /\ UNCHANGED <<ret, files, riderFile, rider, bikes, idx, harnessVars, ax>>

MainNext == GetRider \/ BuildBike \/ MakeExample \/ PlotBike \/ Show

MainSpec == MainInit /\ [][MainNext]_vars

----------------------------------------------------------------------------
(* Properties of Spec                                                      *)

\* Two values that differ by at most one unit of rounding.
Near(n, m) == ~IsBig(Sub(n, m)) /\ Abs(Sub(n, m).v) <= 1

Built == bike # None

\* C1 (as claimed): every construction with chainstay_length < bb_drop,
\* negative values included, raises the domain error and yields no object.
C1_ShortChainstayRaises ==
  (args # None /\ args.a.chainstay_length < args.a.bb_drop)
    => (bike = None /\ (ret.op = "Bicycle" => ret.raised = "ValueError"))

\* C2 (as claimed): with head_tube_angle = 0 the head tube derivation, and
\* every call that reaches it (a draw() stopped earlier by the unbound ax
\* does not), raises instead of returning coordinates.
C2_SingularAngleRaises ==
  (ret.op \in {"_head_tube_coords", "_steer_tube_coords",
               "_top_and_down_tube_coords", "print_specs", "draw"}
     /\ ret.raised # "NameError"
     /\ Obj(ret.target).head_tube_angle = 0)
    => ret.raised # NoExc

\* C4: a constructed Bicycle has a saddle exactly when a rider was passed,
\* and the saddle is built from the rider's three fields, the bottom bracket
\* coordinate and the seat tube angle.
C4_SaddleIffRider ==
  Built =>
    /\ (args.rider = None) <=> (bike.saddle = None)
    /\ args.rider # None =>
         bike.saddle = Saddle(args.rider.saddle_height,
                              args.rider.saddle_length,
                              args.rider.saddle_set_back,
                              <<F(0), F(Half(args.a.wheel_diameter)
                                          - args.a.bb_drop)>>,
                              args.a.seat_tube_angle, args.a.color_str)

C4_Witness ==
  Built /\ args.rider = Rider(0, 0, 0) /\ bike.saddle # None
        /\ bike.saddle.saddle_height = 0

\* C5: the front hub is one wheelbase to the right of the rear hub at the
\* same height, in the Wheel objects stored at construction and in every
\* later call of _front_hub_coords / _rear_hub_coords.
C5_FrontHubOneWheelbase ==
  /\ Built =>
       /\ Sub(bike.front_wheel.coord[1], bike.rear_wheel.coord[1])
            = F(args.a.wheelbase)
       /\ bike.front_wheel.coord[2] = bike.rear_wheel.coord[2]
  /\ (ret.op = "_front_hub_coords") =>
       /\ Sub(ret.val[1], rear_hub_coords(Obj(ret.target)).val[1])
            = F(args.a.wheelbase)
       /\ ret.val[2] = rear_hub_coords(Obj(ret.target)).val[2]
  /\ (ret.op = "_rear_hub_coords") =>
       /\ Sub(front_hub_coords(Obj(ret.target)).val[1], ret.val[1])
            = F(args.a.wheelbase)
       /\ front_hub_coords(Obj(ret.target)).val[2] = ret.val[2]

C5_Witness ==
  Built /\ ret.op = "_front_hub_coords" /\ args.a.wheelbase = 9800
        /\ ret.val[1] # bike.rear_wheel.coord[1]

\* Distance between the rear hub and the bottom bracket of the built bike.
HubToBB ==
  get_distance_between_coords(bike.rear_wheel.coord[1], bike.rear_wheel.coord[2],
                              bike.bb.coord[1], bike.bb.coord[2])

\* C6 (as claimed): whenever chainstay_length >= bb_drop the construction
\* succeeds and the rear hub lies chainstay_length from the bottom bracket.
C6_Original ==
  (args # None /\ args.a.chainstay_length >= args.a.bb_drop)
    => /\ Built
       /\ Near(HubToBB, F(args.a.chainstay_length))

\* C6 (amended): whenever chainstay_length >= |bb_drop| the construction
\* succeeds, the rear hub lies chainstay_length from the bottom bracket, and
\* with |bb_drop| = chainstay_length the rear hub's x is 0.
C6_ChainstayPythagoras ==
  (args # None /\ args.a.chainstay_length >= Abs(args.a.bb_drop))
    => /\ Built
       /\ Near(HubToBB, F(args.a.chainstay_length))
       /\ bike.rear_wheel.coord = <<F(-Sqrt(Pow2(args.a.chainstay_length)
                                              - Pow2(args.a.bb_drop))),
                                    F(Half(args.a.wheel_diameter))>>
       /\ bike.bb.coord = <<F(0), F(Half(args.a.wheel_diameter)
                                      - args.a.bb_drop)>>
       /\ args.a.chainstay_length = Abs(args.a.bb_drop)
            => bike.rear_wheel.coord[1] = F(0)

C6_Witness ==
  /\ Built /\ args.a.chainstay_length = 750 /\ args.a.bb_drop = 750
  /\ bike.rear_wheel.coord[1] = F(0) /\ HubToBB = F(750)

\* Two objects built from identical arguments are equal field by field.
TwinAgree == (bike # None /\ twin # None) => bike = twin

\* The value a derivation returned, on either object and after any earlier
\* calls, is the value the derivation has on the first object.
SameValueEveryCall ==
  ret.op \in Derivations => ret.val = DeriveVal(bike, ret.op)

\* A call on an existing object (a derivation, print_specs or draw) changes
\* no field of it or of its BottomBracket, Wheels or Saddle.
CallsKeepObjects ==
  /\ bike # None => bike' = bike
  /\ twin # None => twin' = twin

\* C7: the layout is a pure function of the constructor arguments: objects
\* built from identical arguments agree on every derivation, every call of
\* a derivation returns the same value, and no call changes an object.
C7_PureLayout ==
  []TwinAgree /\ []SameValueEveryCall /\ [][CallsKeepObjects]_vars

C7_Witness ==
  /\ bike # None /\ twin # None /\ bike.saddle # None
  /\ ret.op = "_head_tube_coords" /\ ret.target = "twin"
  /\ ret.val = head_tube_coords(bike)

\* C8: the printed top tube length is the distance from the head tube's top
\* point to the seat tube's top point, and the printed down tube length the
\* distance from the head tube's bottom point to the bottom bracket.
C8_TubeLengths ==
  ret.op = "print_specs" =>
    LET o == Obj(ret.target)
        head == head_tube_coords(o)
        seat == seat_tube_coords(o)
    IN /\ ret.val.tubes.top_tube =
            get_distance_between_coords(head.x[2], head.y[2], seat.x[2], seat.y[2])
       /\ ret.val.tubes.down_tube =
            get_distance_between_coords(head.x[1], head.y[1],
                                        o.bb.coord[1], o.bb.coord[2])

C8_Witness ==
  /\ ret.op = "print_specs" /\ Obj(ret.target).head_tube_angle = 715
  /\ ret.val.tubes.top_tube = F(5639) /\ ret.val.tubes.down_tube = F(6413)

\* C10: the plotted fork segment starts at the head tube's bottom point and
\* ends where the head tube axis crosses the hubs' horizontal line, at
\* x = front_hub.x - fork_offset / cos(radians(90 - head_tube_angle)) and
\* y = rear_hub.y; with fork_offset # 0 that is not the front hub.
C10_ForkReversesProjection ==
  (ret.op = "draw" /\ ret.raised = NoExc) =>
    LET o == Obj(ret.target)
        fork == ret.val.fork
        head == head_tube_coords(o)
        front == front_hub_coords(o).val
        rear == rear_hub_coords(o).val
    IN /\ fork.x[1] = head.x[1] /\ fork.y[1] = head.y[1]
       /\ fork.x[2] = Sub(front[1], FloatDiv(o.fork_offset,
                                              900 - o.head_tube_angle))
       /\ fork.y[2] = rear[2]
       /\ o.fork_offset # 0 => fork.x[2] # front[1]

C10_Witness ==
  /\ ret.op = "draw" /\ ret.raised = NoExc
  /\ Obj(ret.target).head_tube_angle = 715
  /\ Obj(ret.target).fork_offset = 500
  /\ ret.val.fork.x[1] # ret.val.fork.x[2]
  /\ ret.val.fork.y[2] = F(3500)

----------------------------------------------------------------------------
(* Properties of VecSpec                                                   *)

\* C9: get_vector_coords with length 0 returns the start point as the end
\* point, for every start point and angle; and the start point it returns
\* is always the one passed in.
C9_ZeroLengthNoOp ==
  ret.op = "get_vector_coords" =>
    /\ ret.val.x[1] = args.x1 /\ ret.val.y[1] = args.y1
    /\ args.length = 0 => (ret.val.x[2] = args.x1 /\ ret.val.y[2] = args.y1)

C9_Witness ==
  /\ ret.op = "get_vector_coords" /\ args.length = 0 /\ args.angle_deg = 715
  /\ args.x1 = F(3705)
  /\ ret.val = [x |-> <<F(3705), F(3705)>>, y |-> <<args.y1, args.y1>>]

----------------------------------------------------------------------------
(* Properties of MainSpec                                                  *)

\* The example bike build_bike falls back to: Bicycle() with its defaults.
ExampleBike == Bicycle(DefaultArgs, None).val

FailKinds == {"missing", "badjson", "nokey"}

\* C3 (as claimed): for every kind of loader failure build_bike returns the
\* default Bicycle instead of raising, and the run continues.
C3_Original ==
  (ret.op = "build_bike" /\ files[ret.target].kind \in FailKinds)
    => /\ ret.raised = NoExc
       /\ ret.val = ExampleBike
       /\ pc # "raised"

\* C3 (amended): for a file that cannot be opened or read (IOError)
\* build_bike returns the default Bicycle, built without the rider, and the
\* run goes on to the next file; for content that is not valid JSON or
\* lacks a required key build_bike raises and the run ends there.
C3_FallbackOnIOErrorOnly ==
  /\ (ret.op = "build_bike" /\ files[ret.target].kind = "missing")
       => /\ ret.raised = NoExc /\ ret.val = ExampleBike
          /\ ret.val.saddle = None
          /\ pc = IF ret.target = Len(files) THEN "plot" ELSE "load"
  /\ (ret.op = "build_bike" /\ files[ret.target].kind = "badjson")
       => (ret.raised = "JSONDecodeError" /\ pc = "raised")
  /\ (ret.op = "build_bike" /\ files[ret.target].kind = "nokey")
       => (ret.raised = "KeyError" /\ pc = "raised")
  /\ \A i \in 1..Len(bikes) :
       (files # <<>> /\ files[i].kind = "missing") => bikes[i] = ExampleBike
  /\ pc \in {"plot", "done"} =>
       /\ Len(bikes) = IF files = <<>> THEN 1 ELSE Len(files)
       /\ \A i \in 1..Len(files) : files[i].kind \notin {"badjson", "nokey"}

C3_Witness ==
  /\ pc = "done" /\ Len(files) = 2 /\ Len(bikes) = 2
  /\ files[1].kind = "missing" /\ files[2].kind = "ok"
  /\ rider # None
  /\ bikes[1] = ExampleBike /\ bikes[2].name = "Loaded"

====
